---- MODULE Spec2Model ----
(***************************************************************************)
(* State-machine model of the canvas scene editor (CanvasEditor) of the    *)
(* AI interior renderer: pointer handlers, tool buttons, image and         *)
(* background decode callbacks, the repaint effect and the export.         *)
(* Coordinates are canvas pixels; sequences are 1-based, so an index i of  *)
(* the source array is position i + 1 of the sequence.                     *)
(***************************************************************************)
EXTENDS Integers, Sequences, FiniteSets, TLC

(***************************************************************************)
(* The useState fields of CanvasEditor, and with them: the photo decodes   *)
(* and background reads that are under way (pendingImages,                 *)
(* pendingBackground), the source of fresh element identifiers (nextId,    *)
(* for crypto.randomUUID), and the value returned by the latest call of    *)
(* getCanvasAsBase64, which its caller holds until the next event          *)
(* (exported).                                                             *)
(***************************************************************************)
VARIABLES placedImages, elements, activeTool, action, selectedImageIndex,
          selectedElement, resizeHandle, strokeColor, strokeWidth,
          mousePosition, backgroundColor, backgroundImage,
          pendingImages, pendingBackground, nextId, exported,
          generatedImages, isLoading, error, isAdvancedMode,
          activeImageIndex, numImages, generation

vars == <<placedImages, elements, activeTool, action, selectedImageIndex,
          selectedElement, resizeHandle, strokeColor, strokeWidth,
          mousePosition, backgroundColor, backgroundImage,
          pendingImages, pendingBackground, nextId, exported,
          generatedImages, isLoading, error, isAdvancedMode,
          activeImageIndex, numImages, generation>>

\* the state of App, which the handlers of the editor leave alone
appVars == <<generatedImages, isLoading, error, isAdvancedMode,
             activeImageIndex, numImages, generation>>

\* the state of CanvasEditor but the value of the last export
editorVars == <<placedImages, elements, activeTool, action, selectedImageIndex,
                selectedElement, resizeHandle, strokeColor, strokeWidth,
                mousePosition, backgroundColor, backgroundImage,
                pendingImages, pendingBackground, nextId>>

(***************************************************************************)
(* Bounds of the exploration.                                              *)
(***************************************************************************)
MaxImages == 2
MaxDrag == 1
MaxToolImages == 1
MaxToolElements == 1
MaxToolInk == 2
MaxElements == 2
MaxInk == 4
MaxPoints == 2
MaxErasures == 1
MaxPending == 1
MaxResizeImages == 1
MaxStyleElements == 1
MaxStyleInk == 2
MaxOrderElements == 2
MaxOrderInk == 4
MaxOrderImages == 1

(***************************************************************************)
(* Program constants.                                                      *)
(***************************************************************************)
MAX_WIDTH == 150
DefaultX == 50
DefaultY == 50
MinSize == 10
HitHandleSize == 10
DrawHandleSize == 8
EraserWidth == 20
DefaultStrokeWidth == 5
OutlineWidth == 2

(***************************************************************************)
(* Null values of the nullable state fields.                               *)
(***************************************************************************)
NoIndex == -1
NoHandle == "null"
NoImage == "null"
NoPoint == [x |-> -1, y |-> -1]
NoElement == [id |-> 0, tool |-> "null", points |-> <<>>, color |-> "null", width |-> 0]
NoExport == [mime |-> "null", pixels |-> <<>>]

\* no error message is shown
NoError == "null"
\* no generation is in flight
NoGeneration == [numImages |-> 0, canvasImage |-> NoExport]
\* the number of designs asked for until the slider is moved
DefaultNumImages == 4

Pt(px, py) == [x |-> px, y |-> py]

(***************************************************************************)
(* Types of the editor.                                                    *)
(***************************************************************************)
Tool == {"move", "pencil", "eraser", "line", "rectangle", "circle"}
Action == {"none", "drawing", "dragging", "resizing"}
ResizeHandle == {"tl", "tr", "bl", "br"}

isDrawingTool(tool) == tool \in {"pencil", "line", "rectangle", "circle", "eraser"}
canChangeColor(tool) == tool \in {"pencil", "line", "rectangle", "circle"}

(***************************************************************************)
(* Inputs: the furniture files handed to the editor (identifier and the    *)
(* intrinsic size of the decoded photo), pointer positions, pointer        *)
(* movement deltas, and the values offered by the controls.                *)
(***************************************************************************)
UploadedFiles ==
    { [id |-> "f1", width |-> 300, height |-> 200],
      [id |-> "f2", width |-> 300, height |-> 20] }
Positions == { Pt(50, 50), Pt(60, 60), Pt(200, 150) }
Movements == { Pt(20, -10) }
ToolFiles == { [id |-> "f1", width |-> 300, height |-> 200] }
ToolPositions == { Pt(50, 50), Pt(60, 60) }
ToolMovements == { Pt(0, 0) }
DrawPositions == { Pt(50, 50), Pt(60, 60) }
DrawTools == { "move", "pencil", "eraser", "rectangle" }
StrokeColors == { "#FF0000" }
StrokeWidths == { 20 }
BackgroundColors == { "#00FF00" }
BackgroundFiles == { "room" }
StyleTools == { "rectangle", "line" }
OrderDownPositions == { Pt(50, 50) }
OrderMovePositions == { Pt(60, 60) }
ResizePositions ==
    { Pt(50, 50), Pt(200, 50), Pt(50, 150), Pt(200, 150), Pt(100, 100),
      Pt(190, 140) }

(***************************************************************************)
(* getHandleAtPosition: the first of tl, tr, bl, br whose 10x10 box        *)
(* centred on the corner contains (x, y); the boxes are compared doubled   *)
(* so that handleSize / 2 stays an integer.                                *)
(***************************************************************************)
HandlePos(image, name) ==
    CASE name = "tl" -> Pt(image.x, image.y)
      [] name = "tr" -> Pt(image.x + image.width, image.y)
      [] name = "bl" -> Pt(image.x, image.y + image.height)
      [] name = "br" -> Pt(image.x + image.width, image.y + image.height)

InHandleBox(x, y, pos) ==
    /\ 2 * x >= 2 * pos.x - HitHandleSize
    /\ 2 * x <= 2 * pos.x + HitHandleSize
    /\ 2 * y >= 2 * pos.y - HitHandleSize
    /\ 2 * y <= 2 * pos.y + HitHandleSize

getHandleAtPosition(x, y, image) ==
    IF InHandleBox(x, y, HandlePos(image, "tl")) THEN "tl"
    ELSE IF InHandleBox(x, y, HandlePos(image, "tr")) THEN "tr"
    ELSE IF InHandleBox(x, y, HandlePos(image, "bl")) THEN "bl"
    ELSE IF InHandleBox(x, y, HandlePos(image, "br")) THEN "br"
    ELSE NoHandle

(***************************************************************************)
(* The hit test of handleMouseDown: Array.findIndex returns the lowest     *)
(* index whose bounding box contains the point, or -1.                     *)
(***************************************************************************)
ContainsPoint(img, pos) ==
    /\ pos.x >= img.x /\ pos.x <= img.x + img.width
    /\ pos.y >= img.y /\ pos.y <= img.y + img.height

findIndex(images, pos) ==
    LET hits == { i \in 1..Len(images) : ContainsPoint(images[i], pos) }
    IN  IF hits = {} THEN -1
        ELSE (CHOOSE i \in hits : \A j \in hits : i <= j) - 1

(***************************************************************************)
(* Initial state: the useState initialisers of CanvasEditor.               *)
(***************************************************************************)
Init ==
    /\ placedImages = <<>>
    /\ elements = <<>>
    /\ activeTool = "move"
    /\ action = "none"
    /\ selectedImageIndex = NoIndex
    /\ selectedElement = NoElement
    /\ resizeHandle = NoHandle
    /\ strokeColor = "#000000"
    /\ strokeWidth = DefaultStrokeWidth
    /\ mousePosition = NoPoint
    /\ backgroundColor = "#FFFFFF"
    /\ backgroundImage = NoImage
    /\ pendingImages = <<>>
    /\ pendingBackground = <<>>
    /\ nextId = 1
    /\ exported = NoExport
    /\ generatedImages = <<>>
    /\ isLoading = FALSE
    /\ error = NoError
    /\ isAdvancedMode = FALSE
    /\ activeImageIndex = 0
    /\ numImages = DefaultNumImages
    /\ generation = NoGeneration

(***************************************************************************)
(* handleMouseDown.                                                        *)
(***************************************************************************)
\* a pointer-down that tests the bounding boxes before the handles of the
\* selected image
handleMouseDownHitFirst(pos) ==
    /\ exported' = NoExport
    /\ UNCHANGED appVars
    /\ IF activeTool = "move"
       THEN LET handle == IF selectedImageIndex # NoIndex
                          THEN getHandleAtPosition(pos.x, pos.y,
                                   placedImages[selectedImageIndex + 1])
                          ELSE NoHandle
                imageIndex == findIndex(placedImages, pos)
            IN  /\ IF imageIndex # -1
                   THEN /\ action' = "dragging"
                        /\ selectedImageIndex' = imageIndex
                        /\ UNCHANGED resizeHandle
                   ELSE IF handle # NoHandle
                   THEN /\ action' = "resizing"
                        /\ resizeHandle' = handle
                        /\ UNCHANGED selectedImageIndex
                   ELSE /\ selectedImageIndex' = NoIndex
                        /\ UNCHANGED <<action, resizeHandle>>
                /\ UNCHANGED <<selectedElement, nextId>>
       ELSE /\ action' = "drawing"
            /\ selectedElement' = [id |-> nextId, tool |-> activeTool,
                                   points |-> <<pos>>, color |-> strokeColor,
                                   width |-> strokeWidth]
            /\ nextId' = nextId + 1
            /\ UNCHANGED <<selectedImageIndex, resizeHandle>>
    /\ UNCHANGED <<placedImages, elements, activeTool, strokeColor, strokeWidth,
                   mousePosition, backgroundColor, backgroundImage,
                   pendingImages, pendingBackground>>

handleMouseDown(pos) ==
    /\ exported' = NoExport
    /\ UNCHANGED appVars
    /\ IF activeTool = "move"
       THEN LET handle == IF selectedImageIndex # NoIndex
                          THEN getHandleAtPosition(pos.x, pos.y,
                                   placedImages[selectedImageIndex + 1])
                          ELSE NoHandle
                imageIndex == findIndex(placedImages, pos)
            IN  /\ IF handle # NoHandle
                   THEN /\ action' = "resizing"
                        /\ resizeHandle' = handle
                        /\ UNCHANGED selectedImageIndex
                   ELSE IF imageIndex # -1
                   THEN /\ action' = "dragging"
                        /\ selectedImageIndex' = imageIndex
                        /\ UNCHANGED resizeHandle
                   ELSE /\ selectedImageIndex' = NoIndex
                        /\ UNCHANGED <<action, resizeHandle>>
                /\ UNCHANGED <<selectedElement, nextId>>
       ELSE /\ action' = "drawing"
            /\ selectedElement' = [id |-> nextId, tool |-> activeTool,
                                   points |-> <<pos>>, color |-> strokeColor,
                                   width |-> strokeWidth]
            /\ nextId' = nextId + 1
            /\ UNCHANGED <<selectedImageIndex, resizeHandle>>
    /\ UNCHANGED <<placedImages, elements, activeTool, strokeColor, strokeWidth,
                   mousePosition, backgroundColor, backgroundImage,
                   pendingImages, pendingBackground>>

(***************************************************************************)
(* handleMouseMove: the three branches on the interaction state.           *)
(***************************************************************************)
\* a drag whose state updater takes effect twice for one pointer event
DraggedTwice(img, movement) ==
    [img EXCEPT !.x = img.x + 2 * movement.x, !.y = img.y + 2 * movement.y]

Dragged(img, movement) ==
    [img EXCEPT !.x = img.x + movement.x, !.y = img.y + movement.y]

\* a resize whose top-right case forgets to move the top edge
ResizedKeepingTop(img, handle, x, y) ==
    CASE handle = "tl" ->
           [img EXCEPT !.width = img.x + img.width - x,
                       !.height = img.y + img.height - y,
                       !.x = x, !.y = y]
      [] handle = "tr" ->
           [img EXCEPT !.width = x - img.x,
                       !.height = img.y + img.height - y]
      [] handle = "bl" ->
           [img EXCEPT !.width = img.x + img.width - x,
                       !.height = y - img.y,
                       !.x = x]
      [] handle = "br" ->
           [img EXCEPT !.width = x - img.x,
                       !.height = y - img.y]

Resized(img, handle, x, y) ==
    CASE handle = "tl" ->
           [img EXCEPT !.width = img.x + img.width - x,
                       !.height = img.y + img.height - y,
                       !.x = x, !.y = y]
      [] handle = "tr" ->
           [img EXCEPT !.width = x - img.x,
                       !.height = img.y + img.height - y,
                       !.y = y]
      [] handle = "bl" ->
           [img EXCEPT !.width = img.x + img.width - x,
                       !.height = y - img.y,
                       !.x = x]
      [] handle = "br" ->
           [img EXCEPT !.width = x - img.x,
                       !.height = y - img.y]

\* a floor that only rejects empty and inverted rectangles
AcceptResizePositive(img) == img.width > 0 /\ img.height > 0

AcceptResize(img) == img.width > MinSize /\ img.height > MinSize

\* a pointer-move that appends the point whatever the tool
ExtendedAppending(el, pos) == [el EXCEPT !.points = Append(el.points, pos)]

Extended(el, pos) ==
    IF el.tool = "pencil" \/ el.tool = "eraser"
    THEN [el EXCEPT !.points = Append(el.points, pos)]
    ELSE [el EXCEPT !.points = <<el.points[1], pos>>]

\* a pointer-move whose drag moves every placed image
handleMouseMoveAll(pos, movement) ==
    /\ exported' = NoExport
    /\ UNCHANGED appVars
    /\ mousePosition' = pos
    /\ IF action = "dragging" /\ selectedImageIndex # NoIndex
       THEN /\ placedImages' =
                 [k \in 1..Len(placedImages) |-> Dragged(placedImages[k], movement)]
            /\ UNCHANGED selectedElement
       ELSE IF action = "resizing" /\ selectedImageIndex # NoIndex
                                   /\ resizeHandle # NoHandle
       THEN LET img == Resized(placedImages[selectedImageIndex + 1],
                               resizeHandle, pos.x, pos.y)
            IN  /\ placedImages' =
                     IF AcceptResize(img)
                     THEN [placedImages EXCEPT ![selectedImageIndex + 1] = img]
                     ELSE placedImages
                /\ UNCHANGED selectedElement
       ELSE IF action = "drawing" /\ selectedElement # NoElement
       THEN /\ selectedElement' = Extended(selectedElement, pos)
            /\ UNCHANGED placedImages
       ELSE UNCHANGED <<placedImages, selectedElement>>
    /\ UNCHANGED <<elements, activeTool, action, selectedImageIndex, resizeHandle,
                   strokeColor, strokeWidth, backgroundColor, backgroundImage,
                   pendingImages, pendingBackground, nextId>>

handleMouseMove(pos, movement) ==
    /\ exported' = NoExport
    /\ UNCHANGED appVars
    /\ mousePosition' = pos
    /\ IF action = "dragging" /\ selectedImageIndex # NoIndex
       THEN /\ placedImages' =
                 [placedImages EXCEPT ![selectedImageIndex + 1] =
                      Dragged(placedImages[selectedImageIndex + 1], movement)]
            /\ UNCHANGED selectedElement
       ELSE IF action = "resizing" /\ selectedImageIndex # NoIndex
                                   /\ resizeHandle # NoHandle
       THEN LET img == Resized(placedImages[selectedImageIndex + 1],
                               resizeHandle, pos.x, pos.y)
            IN  /\ placedImages' =
                     IF AcceptResize(img)
                     THEN [placedImages EXCEPT ![selectedImageIndex + 1] = img]
                     ELSE placedImages
                /\ UNCHANGED selectedElement
       ELSE IF action = "drawing" /\ selectedElement # NoElement
       THEN /\ selectedElement' = Extended(selectedElement, pos)
            /\ UNCHANGED placedImages
       ELSE UNCHANGED <<placedImages, selectedElement>>
    /\ UNCHANGED <<elements, activeTool, action, selectedImageIndex, resizeHandle,
                   strokeColor, strokeWidth, backgroundColor, backgroundImage,
                   pendingImages, pendingBackground, nextId>>

(***************************************************************************)
(* handleMouseUp, and the canvas onMouseLeave handler, which runs          *)
(* handleMouseUp and then clears the pointer position.                     *)
(***************************************************************************)
\* a commit in which an eraser stroke deletes the stroke drawn before it
CommittedErasing(els, act, el) ==
    IF act = "drawing" /\ el # NoElement
    THEN IF el.tool = "eraser" /\ els # <<>>
         THEN Append(SubSeq(els, 1, Len(els) - 1), el)
         ELSE Append(els, el)
    ELSE els

\* a commit that stamps the element with the style of the controls at the
\* time of the pointer-up
CommittedRestyled(els, act, el) ==
    IF act = "drawing" /\ el # NoElement
    THEN Append(els, [el EXCEPT !.color = strokeColor, !.width = strokeWidth])
    ELSE els

Committed(els, act, el) ==
    IF act = "drawing" /\ el # NoElement THEN Append(els, el) ELSE els

handleMouseUp ==
    /\ exported' = NoExport
    /\ UNCHANGED appVars
    /\ elements' = Committed(elements, action, selectedElement)
    /\ action' = "none"
    /\ selectedElement' = NoElement
    /\ resizeHandle' = NoHandle
    /\ UNCHANGED <<placedImages, activeTool, selectedImageIndex, strokeColor,
                   strokeWidth, mousePosition, backgroundColor, backgroundImage,
                   pendingImages, pendingBackground, nextId>>

\* a leave handler that resets the interaction without committing the draw
onMouseLeaveDiscarding ==
    /\ exported' = NoExport
    /\ UNCHANGED appVars
    /\ action' = "none"
    /\ selectedElement' = NoElement
    /\ resizeHandle' = NoHandle
    /\ mousePosition' = NoPoint
    /\ UNCHANGED <<placedImages, elements, activeTool, selectedImageIndex,
                   strokeColor, strokeWidth, backgroundColor, backgroundImage,
                   pendingImages, pendingBackground, nextId>>

\* a leave handler that ends the interaction but keeps the pointer position
onMouseLeaveKeepingPosition ==
    /\ exported' = NoExport
    /\ UNCHANGED appVars
    /\ elements' = Committed(elements, action, selectedElement)
    /\ action' = "none"
    /\ selectedElement' = NoElement
    /\ resizeHandle' = NoHandle
    /\ UNCHANGED <<placedImages, activeTool, selectedImageIndex, strokeColor,
                   strokeWidth, mousePosition, backgroundColor, backgroundImage,
                   pendingImages, pendingBackground, nextId>>

onMouseLeave ==
    /\ exported' = NoExport
    /\ UNCHANGED appVars
    /\ elements' = Committed(elements, action, selectedElement)
    /\ action' = "none"
    /\ selectedElement' = NoElement
    /\ resizeHandle' = NoHandle
    /\ mousePosition' = NoPoint
    /\ UNCHANGED <<placedImages, activeTool, selectedImageIndex, strokeColor,
                   strokeWidth, backgroundColor, backgroundImage,
                   pendingImages, pendingBackground, nextId>>

(***************************************************************************)
(* ToolButton onClick.                                                     *)
(***************************************************************************)
\* a tool button that forgets to clear the image selection
ToolButtonKeepingSelection(tool) ==
    /\ exported' = NoExport
    /\ UNCHANGED appVars
    /\ activeTool' = tool
    /\ UNCHANGED <<placedImages, elements, action, selectedImageIndex,
                   selectedElement, resizeHandle, strokeColor, strokeWidth,
                   mousePosition, backgroundColor, backgroundImage,
                   pendingImages, pendingBackground, nextId>>

ToolButton(tool) ==
    /\ exported' = NoExport
    /\ UNCHANGED appVars
    /\ activeTool' = tool
    /\ selectedImageIndex' = NoIndex
    /\ UNCHANGED <<placedImages, elements, action, selectedElement, resizeHandle,
                   strokeColor, strokeWidth, mousePosition, backgroundColor,
                   backgroundImage, pendingImages, pendingBackground, nextId>>

(***************************************************************************)
(* The stroke controls, rendered only under a drawing tool (the colour     *)
(* control not under the eraser).                                          *)
(***************************************************************************)
setStrokeColor(color) ==
    /\ isDrawingTool(activeTool) /\ canChangeColor(activeTool)
    /\ exported' = NoExport
    /\ UNCHANGED appVars
    /\ strokeColor' = color
    /\ UNCHANGED <<placedImages, elements, activeTool, action, selectedImageIndex,
                   selectedElement, resizeHandle, strokeWidth, mousePosition,
                   backgroundColor, backgroundImage, pendingImages,
                   pendingBackground, nextId>>

setStrokeWidth(width) ==
    /\ isDrawingTool(activeTool)
    /\ exported' = NoExport
    /\ UNCHANGED appVars
    /\ strokeWidth' = width
    /\ UNCHANGED <<placedImages, elements, activeTool, action, selectedImageIndex,
                   selectedElement, resizeHandle, strokeColor, mousePosition,
                   backgroundColor, backgroundImage, pendingImages,
                   pendingBackground, nextId>>

(***************************************************************************)
(* addImageToCanvas starts the decode of a furniture photo; its onload     *)
(* callback appends the placed image.  A decode that fails has no handler  *)
(* and only ends the wait.                                                 *)
(***************************************************************************)
RemoveAt(seq, i) == SubSeq(seq, 1, i - 1) \o SubSeq(seq, i + 1, Len(seq))

NewPlacedImage(file) ==
    [id |-> file.id, image |-> file.id, x |-> DefaultX, y |-> DefaultY,
     width |-> MAX_WIDTH, height |-> (file.height * MAX_WIDTH) \div file.width]

\* an activation that places the image at once, before its decode
addImageToCanvasUndecoded(file) ==
    /\ exported' = NoExport
    /\ UNCHANGED appVars
    /\ placedImages' = Append(placedImages, NewPlacedImage(file))
    /\ pendingImages' = Append(pendingImages, file)
    /\ UNCHANGED <<elements, activeTool, action, selectedImageIndex,
                   selectedElement, resizeHandle, strokeColor, strokeWidth,
                   mousePosition, backgroundColor, backgroundImage,
                   pendingBackground, nextId>>

addImageToCanvas(file) ==
    /\ exported' = NoExport
    /\ UNCHANGED appVars
    /\ pendingImages' = Append(pendingImages, file)
    /\ UNCHANGED <<placedImages, elements, activeTool, action, selectedImageIndex,
                   selectedElement, resizeHandle, strokeColor, strokeWidth,
                   mousePosition, backgroundColor, backgroundImage,
                   pendingBackground, nextId>>

\* a decode callback that puts the new image in front of the others
imageOnloadPrepending(i) ==
    /\ i \in 1..Len(pendingImages)
    /\ exported' = NoExport
    /\ UNCHANGED appVars
    /\ placedImages' = <<NewPlacedImage(pendingImages[i])>> \o placedImages
    /\ pendingImages' = RemoveAt(pendingImages, i)
    /\ UNCHANGED <<elements, activeTool, action, selectedImageIndex,
                   selectedElement, resizeHandle, strokeColor, strokeWidth,
                   mousePosition, backgroundColor, backgroundImage,
                   pendingBackground, nextId>>

imageOnload(i) ==
    /\ i \in 1..Len(pendingImages)
    /\ exported' = NoExport
    /\ UNCHANGED appVars
    /\ placedImages' = Append(placedImages, NewPlacedImage(pendingImages[i]))
    /\ pendingImages' = RemoveAt(pendingImages, i)
    /\ UNCHANGED <<elements, activeTool, action, selectedImageIndex,
                   selectedElement, resizeHandle, strokeColor, strokeWidth,
                   mousePosition, backgroundColor, backgroundImage,
                   pendingBackground, nextId>>

imageOnerror(i) ==
    /\ i \in 1..Len(pendingImages)
    /\ exported' = NoExport
    /\ UNCHANGED appVars
    /\ pendingImages' = RemoveAt(pendingImages, i)
    /\ UNCHANGED <<placedImages, elements, activeTool, action, selectedImageIndex,
                   selectedElement, resizeHandle, strokeColor, strokeWidth,
                   mousePosition, backgroundColor, backgroundImage,
                   pendingBackground, nextId>>

(***************************************************************************)
(* The background controls: the colour input, and the file input whose     *)
(* read and decode complete later in backgroundOnload.                     *)
(***************************************************************************)
handleBackgroundColorChange(color) ==
    /\ exported' = NoExport
    /\ UNCHANGED appVars
    /\ backgroundColor' = color
    /\ backgroundImage' = NoImage
    /\ UNCHANGED <<placedImages, elements, activeTool, action, selectedImageIndex,
                   selectedElement, resizeHandle, strokeColor, strokeWidth,
                   mousePosition, pendingImages, pendingBackground, nextId>>

handleBackgroundImageUpload(file) ==
    /\ exported' = NoExport
    /\ UNCHANGED appVars
    /\ pendingBackground' = Append(pendingBackground, file)
    /\ UNCHANGED <<placedImages, elements, activeTool, action, selectedImageIndex,
                   selectedElement, resizeHandle, strokeColor, strokeWidth,
                   mousePosition, backgroundColor, backgroundImage,
                   pendingImages, nextId>>

backgroundOnload(i) ==
    /\ i \in 1..Len(pendingBackground)
    /\ exported' = NoExport
    /\ UNCHANGED appVars
    /\ backgroundImage' = pendingBackground[i]
    /\ pendingBackground' = RemoveAt(pendingBackground, i)
    /\ UNCHANGED <<placedImages, elements, activeTool, action, selectedImageIndex,
                   selectedElement, resizeHandle, strokeColor, strokeWidth,
                   mousePosition, backgroundColor, pendingImages, nextId>>

(***************************************************************************)
(* Raster geometry.  A frame is sampled at SamplePoints; a painting call   *)
(* is a layer: the sample points it covers and the paint it leaves there.  *)
(* Distances are compared exactly in integers.                             *)
(***************************************************************************)
SamplePoints == Positions \cup { Pt(50, 60), Pt(52, 50) }

Color(c) == [kind |-> "color", value |-> c]
Transparent == [kind |-> "transparent", value |-> "none"]

Abs(n) == IF n < 0 THEN -n ELSE n
Dist2(a, b) == (a.x - b.x) * (a.x - b.x) + (a.y - b.y) * (a.y - b.y)

RECURSIVE IsqrtIn(_, _, _)
IsqrtIn(n, lo, hi) ==
    IF lo >= hi THEN lo
    ELSE LET mid == (lo + hi + 1) \div 2
         IN  IF mid * mid <= n THEN IsqrtIn(n, mid, hi)
             ELSE IsqrtIn(n, lo, mid - 1)

Isqrt(n) == IsqrtIn(n, 0, 46340)

\* a <= k * sqrt(n), for k > 0 and n >= 0
LeqSqrt(a, k, n) ==
    IF a <= 0 THEN TRUE
    ELSE LET s == Isqrt(n)
         IN  IF a <= k * s THEN TRUE
             ELSE IF a >= k * (s + 1) THEN FALSE
             ELSE LET e == a - k * s
                  IN  2 * k * s * e + e * e <= k * k * (n - s * s)

\* p lies within w / 2 of the segment from a to b (round caps)
SegNear(p, a, b, w) ==
    LET len2 == Dist2(a, b)
        t == (p.x - a.x) * (b.x - a.x) + (p.y - a.y) * (b.y - a.y)
        cross == (p.x - a.x) * (b.y - a.y) - (p.y - a.y) * (b.x - a.x)
    IN  IF len2 = 0 \/ t <= 0 THEN 4 * Dist2(p, a) <= w * w
        ELSE IF t >= len2 THEN 4 * Dist2(p, b) <= w * w
        ELSE LeqSqrt(2 * Abs(cross), w, len2)

\* a stroked segment: zero-length segments are pruned from a path before
\* it is stroked, and leave no paint
StrokeNear(p, a, b, w) == a # b /\ SegNear(p, a, b, w)

\* p lies within w / 2 of the circle around c whose squared radius is r2
ArcNear(p, c, r2, w) ==
    /\ LeqSqrt(4 * (Dist2(p, c) + r2) - w * w, 8, Dist2(p, c) * r2)

\* p lies within w / 2 of the circle around c whose diameter is d
RingNear(p, c, d, w) ==
    /\ LeqSqrt(d - w, 2, Dist2(p, c))
    /\ 4 * Dist2(p, c) <= (d + w) * (d + w)

\* p lies in the box from (x0, y0) to (x1, y1) grown by m / 2 on every side
InBox(p, x0, y0, x1, y1, m) ==
    /\ 2 * p.x >= 2 * x0 - m /\ 2 * p.x <= 2 * x1 + m
    /\ 2 * p.y >= 2 * y0 - m /\ 2 * p.y <= 2 * y1 + m

\* p lies on the outline of width w of that box (mitred corners)
OnBoxOutline(p, x0, y0, x1, y1, w) ==
    /\ InBox(p, x0, y0, x1, y1, w)
    /\ ~ ( /\ 2 * p.x > 2 * x0 + w /\ 2 * p.x < 2 * x1 - w
           /\ 2 * p.y > 2 * y0 + w /\ 2 * p.y < 2 * y1 - w )

Min(a, b) == IF a < b THEN a ELSE b
Max(a, b) == IF a > b THEN a ELSE b

(***************************************************************************)
(* drawElement of the repaint effect: the path of an element by tool, and  *)
(* the stroke style (an eraser strokes the background colour, 20 wide).    *)
(***************************************************************************)
ElementCovers(el, p) ==
    LET w == IF el.tool = "eraser" THEN EraserWidth ELSE el.width
        n == Len(el.points)
    IN  CASE el.tool \in {"pencil", "eraser"} ->
               /\ n > 0
               /\ \E i \in 1..n :
                     StrokeNear(p, el.points[Max(i - 1, 1)], el.points[i], w)
          [] el.tool = "line" ->
               /\ n > 1
               /\ StrokeNear(p, el.points[1], el.points[2], w)
          [] el.tool = "rectangle" ->
               /\ n > 1
               /\ LET a == el.points[1]
                      b == el.points[2]
                  IN  \/ StrokeNear(p, Pt(a.x, a.y), Pt(b.x, a.y), w)
                      \/ StrokeNear(p, Pt(b.x, a.y), Pt(b.x, b.y), w)
                      \/ StrokeNear(p, Pt(b.x, b.y), Pt(a.x, b.y), w)
                      \/ StrokeNear(p, Pt(a.x, b.y), Pt(a.x, a.y), w)
          [] el.tool = "circle" ->
               /\ n > 1
               /\ el.points[1] # el.points[2]
               /\ ArcNear(p, el.points[1], Dist2(el.points[1], el.points[2]), w)
          [] OTHER -> FALSE

ElementStrokeStyle(el) ==
    IF el.tool = "eraser" THEN backgroundColor ELSE el.color

drawElement(el) ==
    [at |-> { p \in SamplePoints : ElementCovers(el, p) },
     paint |-> Color(ElementStrokeStyle(el))]

(***************************************************************************)
(* The repaint effect, which runs after every render: background, the      *)
(* committed elements, the element in progress, the placed images (the     *)
(* selected one followed by its outline and four handles), and the         *)
(* tool-size preview circle.                                               *)
(***************************************************************************)
BackgroundLayer ==
    [at |-> SamplePoints,
     paint |-> IF backgroundImage # NoImage
               THEN [kind |-> "background", value |-> backgroundImage]
               ELSE Color(backgroundColor)]

ImageLayer(img) ==
    [at |-> { p \in SamplePoints :
                 InBox(p, img.x, img.y, img.x + img.width, img.y + img.height, 0) },
     paint |-> [kind |-> "image", value |-> img.image]]

HandleLayers(h) ==
    << [at |-> { p \in SamplePoints :
                    InBox(p, h.x, h.y, h.x, h.y, DrawHandleSize) },
        paint |-> Color("#FFFFFF")],
       [at |-> { p \in SamplePoints :
                    OnBoxOutline(p, h.x - DrawHandleSize \div 2, h.y - DrawHandleSize \div 2,
                                 h.x + DrawHandleSize \div 2, h.y + DrawHandleSize \div 2, 1) },
        paint |-> Color("#000000")] >>

SelectionLayers(img) ==
    << [at |-> { p \in SamplePoints :
                    OnBoxOutline(p, Min(img.x, img.x + img.width),
                                 Min(img.y, img.y + img.height),
                                 Max(img.x, img.x + img.width),
                                 Max(img.y, img.y + img.height), OutlineWidth) },
        paint |-> Color("#007bff")] >>
    \o HandleLayers(HandlePos(img, "tl")) \o HandleLayers(HandlePos(img, "tr"))
    \o HandleLayers(HandlePos(img, "bl")) \o HandleLayers(HandlePos(img, "br"))

RECURSIVE ImagesLayers(_, _, _)
ImagesLayers(images, selIdx, i) ==
    IF i > Len(images) THEN <<>>
    ELSE <<ImageLayer(images[i])>>
         \o (IF selIdx = i - 1 THEN SelectionLayers(images[i]) ELSE <<>>)
         \o ImagesLayers(images, selIdx, i + 1)

PreviewShown(mouse) ==
    mouse # NoPoint /\ isDrawingTool(activeTool) /\ action = "none"

PreviewLayers(mouse) ==
    IF PreviewShown(mouse)
    THEN << [at |-> { p \in SamplePoints :
                         RingNear(p, mouse,
                                  IF activeTool = "eraser" THEN EraserWidth
                                  ELSE strokeWidth, 1) },
             paint |-> Color(IF activeTool = "eraser" THEN "#000000"
                             ELSE strokeColor)] >>
    ELSE <<>>

\* a repaint that draws the placed images before the drawn elements
useLayoutEffectImagesFirst(images, els, selEl, selIdx, mouse) ==
    <<BackgroundLayer>>
    \o ImagesLayers(images, selIdx, 1)
    \o [i \in 1..Len(els) |-> drawElement(els[i])]
    \o (IF selEl # NoElement THEN <<drawElement(selEl)>> ELSE <<>>)
    \o PreviewLayers(mouse)

useLayoutEffect(images, els, selEl, selIdx, mouse) ==
    <<BackgroundLayer>>
    \o [i \in 1..Len(els) |-> drawElement(els[i])]
    \o (IF selEl # NoElement THEN <<drawElement(selEl)>> ELSE <<>>)
    \o ImagesLayers(images, selIdx, 1)
    \o PreviewLayers(mouse)

\* the pixels left by a sequence of painting calls on a cleared surface
Raster(layers) ==
    [p \in SamplePoints |->
        LET hits == { i \in 1..Len(layers) : p \in layers[i].at }
        IN  IF hits = {} THEN Transparent
            ELSE layers[CHOOSE i \in hits : \A j \in hits : j <= i].paint]

\* the visible canvas after the repaint of the current render
Canvas ==
    Raster(useLayoutEffect(placedImages, elements, selectedElement,
                           selectedImageIndex, mousePosition))

(***************************************************************************)
(* getCanvasAsBase64: a temporary canvas is painted with the background    *)
(* and then with the visible canvas, and encoded as JPEG.                  *)
(***************************************************************************)
DrawnOver(top, bottom) ==
    [p \in SamplePoints |-> IF top[p] # Transparent THEN top[p] ELSE bottom[p]]

Flattened(canvas) ==
    [mime |-> "image/jpeg",
     pixels |-> DrawnOver(canvas, Raster(<<BackgroundLayer>>))]

getCanvasAsBase64 ==
    /\ exported' = Flattened(Canvas)
    /\ UNCHANGED appVars
    /\ UNCHANGED <<placedImages, elements, activeTool, action, selectedImageIndex,
                   selectedElement, resizeHandle, strokeColor, strokeWidth,
                   mousePosition, backgroundColor, backgroundImage,
                   pendingImages, pendingBackground, nextId>>

(***************************************************************************)
(* Caps that keep the exploration finite: a drag stays within MaxDrag      *)
(* movements of the default placement, and a stroke within MaxPoints.      *)
(***************************************************************************)
DragAllowed(movement) ==
    action = "dragging" /\ selectedImageIndex # NoIndex =>
        LET img == placedImages[selectedImageIndex + 1]
        IN  \/ Abs(img.x + movement.x - DefaultX) <= MaxDrag * 20
            \/ Abs(img.x + movement.x - DefaultX) < Abs(img.x - DefaultX)

PointAllowed ==
    action = "drawing" => Len(selectedElement.points) < MaxPoints

RECURSIVE Ink(_, _)
Ink(els, el) ==
    IF els = <<>> THEN Len(el.points)
    ELSE Len(Head(els).points) + Ink(Tail(els), el)

(***************************************************************************)
(* generateRenderings (services/geminiService.ts).  A thrown value is an   *)
(* Error with a message or a value that is no Error; a response holds      *)
(* candidates, a candidate holds parts, a part is text or inline data.     *)
(***************************************************************************)
MissingKeyMessage == "API_KEY environment variable is not set."
NoImagesMessage ==
    "The model did not return any images. Please try again with different furniture."
InvalidRequestMessage ==
    "The request was invalid. Please check the uploaded images and try again. It's possible one of the images is in a format the model cannot process."
FailedMessage ==
    "Failed to generate interior design renderings. Please check the console for details."

ErrorOf(message) == [isError |-> TRUE, message |-> message]
\* the event a FileReader hands to reader.onerror
ProgressEvent == [isError |-> FALSE, message |-> "error"]
NoRejection == [isError |-> FALSE, message |-> "null"]

TextPart == [kind |-> "text", mimeType |-> "text/plain", data |-> "caption"]
InlineData(data) == [kind |-> "inlineData", mimeType |-> "image/png", data |-> data]

\* the answers one request can get: no candidates, a caption alone, a
\* caption followed by two pictures, two candidates with a picture each
Responses ==
    { [candidates |-> <<>>],
      [candidates |-> << [parts |-> <<TextPart>>] >>],
      [candidates |-> << [parts |-> <<TextPart, InlineData("A"), InlineData("B")>>] >>],
      [candidates |-> << [parts |-> <<InlineData("A")>>],
                         [parts |-> <<TextPart, InlineData("B")>>] >>] }

\* the errors a request can be rejected with
RequestErrors ==
    { ErrorOf("got status: 400 Bad Request"),
      ErrorOf("got status: 503 Service Unavailable") }

\* error.message.includes('400'), over the messages thrown inside the try
Includes400(message) ==
    CASE message = "got status: 400 Bad Request" -> TRUE
      [] message = "got status: 503 Service Unavailable" -> FALSE
      [] message = NoImagesMessage -> FALSE
      [] OTHER -> FALSE

\* what the surroundings decide for one call: whether the key is set, whether
\* the files can be read, and what the n parallel requests settle to
Environment(apiKey, readable, rejection, responses) ==
    [apiKey |-> apiKey, readable |-> readable,
     rejection |-> rejection, responses |-> responses]

Environments(n) ==
    { Environment(FALSE, TRUE, NoRejection, <<>>),
      Environment(TRUE, FALSE, NoRejection, <<>>) }
    \cup { Environment(TRUE, TRUE, e, <<>>) : e \in RequestErrors }
    \cup { Environment(TRUE, TRUE, NoRejection, r) : r \in [1..n -> Responses] }

\* the image of a candidate: its first inline-data part, as a data URL
RECURSIVE CandidateImage(_)
CandidateImage(parts) ==
    IF parts = <<>> THEN <<>>
    ELSE IF Head(parts).kind = "inlineData"
         THEN << "data:" \o Head(parts).mimeType \o ";base64," \o Head(parts).data >>
         ELSE CandidateImage(Tail(parts))

RECURSIVE CandidatesImages(_)
CandidatesImages(candidates) ==
    IF candidates = <<>> THEN <<>>
    ELSE CandidateImage(Head(candidates).parts) \o CandidatesImages(Tail(candidates))

RECURSIVE ResponsesImages(_)
ResponsesImages(responses) ==
    IF responses = <<>> THEN <<>>
    ELSE CandidatesImages(Head(responses).candidates) \o ResponsesImages(Tail(responses))

Returned(images) == [kind |-> "returned", images |-> images, error |-> NoRejection]
Rejected(thrown) == [kind |-> "rejected", images |-> <<>>, error |-> thrown]

generateRenderings(env) ==
    IF ~ env.apiKey THEN Rejected(ErrorOf(MissingKeyMessage))
    ELSE LET attempt ==
                 IF ~ env.readable THEN Rejected(ProgressEvent)
                 ELSE IF env.rejection # NoRejection THEN Rejected(env.rejection)
                 ELSE LET images == ResponsesImages(env.responses)
                      IN  IF images = <<>>
                          THEN Rejected(ErrorOf(NoImagesMessage))
                          ELSE Returned(images)
         IN  IF attempt.kind = "returned" THEN attempt
             ELSE IF attempt.error.isError /\ Includes400(attempt.error.message)
                  THEN Rejected(ErrorOf(InvalidRequestMessage))
                  ELSE Rejected(ErrorOf(FailedMessage))

(***************************************************************************)
(* App.  The list of uploaded files is the fixed list UploadedFiles; a     *)
(* generation is started by handleGenerate and settles in a later step.    *)
(***************************************************************************)
MissingFilesMessage == "Please upload at least one furniture image."
UnknownErrorMessage == "An unknown error occurred."

\* the values the slider is moved to
NumImagesChoices == {1, 2}

\* the part of handleGenerate before its await
handleGenerate ==
    IF UploadedFiles = {}
    THEN /\ error' = MissingFilesMessage
         /\ UNCHANGED <<generatedImages, isLoading, isAdvancedMode,
                        activeImageIndex, numImages, generation>>
         /\ UNCHANGED <<editorVars, exported>>
    ELSE /\ isLoading' = TRUE
         /\ error' = NoError
         /\ generatedImages' = <<>>
         /\ exported' = IF isAdvancedMode THEN Flattened(Canvas) ELSE exported
         /\ generation' = [numImages |-> numImages,
                           canvasImage |-> IF isAdvancedMode
                                           THEN Flattened(Canvas) ELSE NoExport]
         /\ UNCHANGED <<isAdvancedMode, activeImageIndex, numImages>>
         /\ UNCHANGED editorVars

\* a settlement that leaves the carousel where it was
handleGenerateSettledKeepingIndex(env) ==
    /\ generation # NoGeneration
    /\ LET result == generateRenderings(env)
       IN  IF result.kind = "returned"
           THEN /\ generatedImages' = result.images
                /\ UNCHANGED <<error, activeImageIndex>>
           ELSE /\ error' = IF result.error.isError
                            THEN result.error.message ELSE UnknownErrorMessage
                /\ UNCHANGED <<generatedImages, activeImageIndex>>
    /\ isLoading' = FALSE
    /\ generation' = NoGeneration
    /\ UNCHANGED <<isAdvancedMode, numImages>>
    /\ UNCHANGED <<editorVars, exported>>

\* the part of handleGenerate after its await: the call has settled
handleGenerateSettled(env) ==
    /\ generation # NoGeneration
    /\ LET result == generateRenderings(env)
       IN  IF result.kind = "returned"
           THEN /\ generatedImages' = result.images
                /\ activeImageIndex' = 0
                /\ UNCHANGED error
           ELSE /\ error' = IF result.error.isError
                            THEN result.error.message ELSE UnknownErrorMessage
                /\ UNCHANGED <<generatedImages, activeImageIndex>>
    /\ isLoading' = FALSE
    /\ generation' = NoGeneration
    /\ UNCHANGED <<isAdvancedMode, numImages>>
    /\ UNCHANGED <<editorVars, exported>>

setNumImages(n) ==
    /\ numImages' = n
    /\ UNCHANGED <<generatedImages, isLoading, error, isAdvancedMode,
                   activeImageIndex, generation>>
    /\ UNCHANGED <<editorVars, exported>>

\* the mode switch: the editor is mounted anew in its initial state when the
\* advanced mode is entered and is unmounted when it is left
setIsAdvancedMode ==
    /\ isAdvancedMode' = ~ isAdvancedMode
    /\ placedImages' = <<>>
    /\ elements' = <<>>
    /\ activeTool' = "move"
    /\ action' = "none"
    /\ selectedImageIndex' = NoIndex
    /\ selectedElement' = NoElement
    /\ resizeHandle' = NoHandle
    /\ strokeColor' = "#000000"
    /\ strokeWidth' = DefaultStrokeWidth
    /\ mousePosition' = NoPoint
    /\ backgroundColor' = "#FFFFFF"
    /\ backgroundImage' = NoImage
    /\ pendingImages' = <<>>
    /\ pendingBackground' = <<>>
    /\ nextId' = 1
    /\ exported' = NoExport
    /\ UNCHANGED <<generatedImages, isLoading, error, activeImageIndex,
                   numImages, generation>>

previousImage ==
    /\ activeImageIndex' =
           (activeImageIndex - 1 + Len(generatedImages)) % Len(generatedImages)
    /\ UNCHANGED <<generatedImages, isLoading, error, isAdvancedMode,
                   numImages, generation>>
    /\ UNCHANGED <<editorVars, exported>>

nextImage ==
    /\ activeImageIndex' = (activeImageIndex + 1) % Len(generatedImages)
    /\ UNCHANGED <<generatedImages, isLoading, error, isAdvancedMode,
                   numImages, generation>>
    /\ UNCHANGED <<editorVars, exported>>

goToImage(index) ==
    /\ index \in 0..(Len(generatedImages) - 1)
    /\ activeImageIndex' = index
    /\ UNCHANGED <<generatedImages, isLoading, error, isAdvancedMode,
                   numImages, generation>>
    /\ UNCHANGED <<editorVars, exported>>

(***************************************************************************)
(* The scene: furniture photos are added, hit, dragged and resized with    *)
(* the move tool.                                                          *)
(***************************************************************************)
Next ==
    \/ \E pos \in Positions : handleMouseDown(pos)
    \/ \E pos \in Positions, movement \in Movements :
          /\ DragAllowed(movement)
          /\ handleMouseMove(pos, movement)
    \/ handleMouseUp
    \/ onMouseLeave
    \/ ToolButton("move")
    \/ \E file \in UploadedFiles :
          /\ Len(placedImages) + Len(pendingImages) < MaxImages
          /\ addImageToCanvas(file)
    \/ \E i \in 1..MaxImages : imageOnload(i)
    \/ \E i \in 1..MaxImages : imageOnerror(i)
    \/ getCanvasAsBase64

Spec == Init /\ [][Next]_vars

(***************************************************************************)
(* The tools: one furniture photo, every tool button, pointer gestures     *)
(* under every tool, and the export.                                       *)
(***************************************************************************)
NextTools ==
    \/ \E pos \in ToolPositions :
          /\ activeTool # "move" => nextId <= MaxToolElements
          /\ handleMouseDown(pos)
    \/ \E pos \in ToolPositions, movement \in ToolMovements :
          /\ DragAllowed(movement)
          /\ handleMouseMove(pos, movement)
          /\ Ink(elements', selectedElement') <= MaxToolInk
    \/ handleMouseUp
    \/ onMouseLeave
    \/ \E tool \in Tool : ToolButton(tool)
    \/ \E file \in ToolFiles :
          /\ Len(placedImages) + Len(pendingImages) < MaxToolImages
          /\ addImageToCanvas(file)
    \/ \E i \in 1..MaxToolImages : imageOnload(i)

SpecTools == Init /\ [][NextTools]_vars

(***************************************************************************)
(* The drawing: strokes and shapes are drawn, interrupted and committed     *)
(* within a budget of MaxInk points.                                       *)
(***************************************************************************)
NextDraw ==
    \/ \E pos \in DrawPositions :
          /\ nextId <= MaxElements
          /\ handleMouseDown(pos)
          /\ Ink(elements', selectedElement') <= MaxInk
    \/ \E pos \in DrawPositions :
          /\ handleMouseMove(pos, Pt(0, 0))
          /\ Ink(elements', selectedElement') <= MaxInk
    \/ handleMouseUp
    \/ onMouseLeave
    \/ \E tool \in DrawTools : ToolButton(tool)

SpecDraw == Init /\ [][NextDraw]_vars

(***************************************************************************)
(* The background: the colour and image controls, the eraser, and the      *)
(* export.                                                                 *)
(***************************************************************************)
NextBackground ==
    \/ \E pos \in DrawPositions :
          /\ nextId <= MaxErasures
          /\ handleMouseDown(pos)
    \/ \E pos \in DrawPositions :
          /\ PointAllowed
          /\ handleMouseMove(pos, Pt(0, 0))
    \/ handleMouseUp
    \/ onMouseLeave
    \/ \E tool \in {"eraser", "pencil"} : ToolButton(tool)
    \/ \E color \in BackgroundColors : handleBackgroundColorChange(color)
    \/ \E file \in BackgroundFiles :
          /\ Len(pendingBackground) < MaxPending
          /\ handleBackgroundImageUpload(file)
    \/ \E i \in 1..MaxPending : backgroundOnload(i)
    \/ getCanvasAsBase64

SpecBackground == Init /\ [][NextBackground]_vars

(***************************************************************************)
(* The background controls where every background image is requested       *)
(* before the first colour pick (backgroundColor still has its initial     *)
(* value), with the decodes completing at any later time.                  *)
(***************************************************************************)
NextLateDecode ==
    \/ \E pos \in DrawPositions :
          /\ nextId <= MaxErasures
          /\ handleMouseDown(pos)
    \/ \E pos \in DrawPositions :
          /\ PointAllowed
          /\ handleMouseMove(pos, Pt(0, 0))
    \/ handleMouseUp
    \/ onMouseLeave
    \/ \E tool \in {"eraser", "pencil"} : ToolButton(tool)
    \/ \E color \in BackgroundColors : handleBackgroundColorChange(color)
    \/ \E file \in BackgroundFiles :
          /\ backgroundColor = "#FFFFFF"
          /\ Len(pendingBackground) < MaxPending
          /\ handleBackgroundImageUpload(file)
    \/ \E i \in 1..MaxPending : backgroundOnload(i)
    \/ getCanvasAsBase64

SpecLateDecode == Init /\ [][NextLateDecode]_vars

(***************************************************************************)
(* The resize: one furniture photo is selected and resized from each of    *)
(* its four handles.                                                       *)
(***************************************************************************)
NextResize ==
    \/ \E pos \in ResizePositions : handleMouseDown(pos)
    \/ \E pos \in ResizePositions : handleMouseMove(pos, Pt(0, 0))
    \/ handleMouseUp
    \/ onMouseLeave
    \/ \E file \in ToolFiles :
          /\ Len(placedImages) + Len(pendingImages) < MaxResizeImages
          /\ addImageToCanvas(file)
    \/ \E i \in 1..MaxResizeImages : imageOnload(i)

SpecResize == Init /\ [][NextResize]_vars

(***************************************************************************)
(* The stroke style: shapes are drawn while the colour and width controls  *)
(* and the tool buttons are used, also in the middle of a gesture.         *)
(***************************************************************************)
NextStyle ==
    \/ \E pos \in DrawPositions :
          /\ nextId <= MaxStyleElements
          /\ handleMouseDown(pos)
    \/ \E pos \in DrawPositions :
          /\ handleMouseMove(pos, Pt(0, 0))
          /\ Ink(elements', selectedElement') <= MaxStyleInk
    \/ handleMouseUp
    \/ onMouseLeave
    \/ \E tool \in StyleTools : ToolButton(tool)
    \/ \E color \in StrokeColors : setStrokeColor(color)
    \/ \E width \in StrokeWidths : setStrokeWidth(width)

SpecStyle == Init /\ [][NextStyle]_vars

(***************************************************************************)
(* The paint order: pencil and eraser strokes are committed before and     *)
(* after a furniture photo is placed over them.                            *)
(***************************************************************************)
NextOrder ==
    \/ \E pos \in OrderDownPositions :
          /\ nextId <= MaxOrderElements
          /\ handleMouseDown(pos)
          /\ Ink(elements', selectedElement') <= MaxOrderInk
    \/ \E pos \in OrderMovePositions :
          /\ handleMouseMove(pos, Pt(0, 0))
          /\ Ink(elements', selectedElement') <= MaxOrderInk
    \/ handleMouseUp
    \/ \E tool \in {"pencil", "eraser"} : ToolButton(tool)
    \/ \E file \in ToolFiles :
          /\ Len(placedImages) + Len(pendingImages) < MaxOrderImages
          /\ addImageToCanvas(file)
    \/ \E i \in 1..MaxOrderImages : imageOnload(i)

SpecOrder == Init /\ [][NextOrder]_vars

(***************************************************************************)
(* App with the editor left in its initial state.  The generate button is  *)
(* disabled while a generation is loading; the carousel is rendered when   *)
(* there are images and nothing is loading, its arrows and dots when there *)
(* is more than one image.                                                 *)
(***************************************************************************)
NextApp ==
    \/ /\ ~ isLoading
       /\ handleGenerate
    \/ \E env \in Environments(generation.numImages) : handleGenerateSettled(env)
    \/ \E n \in NumImagesChoices : setNumImages(n)
    \/ setIsAdvancedMode
    \/ /\ Len(generatedImages) > 1 /\ ~ isLoading
       /\ previousImage
    \/ /\ Len(generatedImages) > 1 /\ ~ isLoading
       /\ nextImage
    \/ \E index \in 0..(Len(generatedImages) - 1) :
          /\ Len(generatedImages) > 1 /\ ~ isLoading
          /\ goToImage(index)

SpecApp == Init /\ [][NextApp]_vars

(***************************************************************************)
(* Properties.                                                             *)
(***************************************************************************)
IsPrefix(s, t) == Len(s) <= Len(t) /\ SubSeq(t, 1, Len(s)) = s

\* the composite of the committed scene alone, as an export would encode it
CleanExport(selEl, selIdx, mouse) ==
    Flattened(Raster(useLayoutEffect(placedImages, elements, selEl, selIdx, mouse)))

\* the index of the painting call that decides the pixel at p
TopLayer(layers, p) ==
    LET hits == { i \in 1..Len(layers) : p \in layers[i].at }
    IN  CHOOSE i \in hits : \A j \in hits : j <= i

\* C1: every placed image is wider and higher than 10 pixels, from its
\* default placement on and after every drag and resize.
C1_SizeFloor ==
    \A i \in 1..Len(placedImages) :
        placedImages[i].width > MinSize /\ placedImages[i].height > MinSize

\* C2: an export carries no editor-only painting: it equals the export of
\* the same scene with the image selection cleared and no pointer position.
C2_ExportWithoutEditorUI ==
    exported # NoExport => exported = CleanExport(selectedElement, NoIndex, NoPoint)

\* C3: an export requested while a draw is in progress does not contain
\* the uncommitted element.
C3_ExportWithoutDraft ==
    (exported # NoExport /\ action = "drawing" /\ selectedElement # NoElement) =>
        exported = CleanExport(NoElement, selectedImageIndex, mousePosition)

\* C4: a pointer-down under a drawing tool starts a draw at the pointer
\* position, every pointer-move of the draw keeps it in progress with the
\* new position as its last point, and a pointer-leave that ends the draw
\* commits exactly the element in progress, with the points it has
\* accumulated, and returns to idle with no element in progress; a
\* pointer-up or pointer-leave in that idle state commits nothing.
C4_LeaveCommitsOnce ==
    [][ /\ \A pos \in DrawPositions :
             /\ (handleMouseDown(pos) /\ isDrawingTool(activeTool)) =>
                   /\ action' = "drawing"
                   /\ selectedElement'.points = <<pos>>
                   /\ elements' = elements
             /\ (handleMouseMove(pos, Pt(0, 0)) /\ action = "drawing"
                    /\ selectedElement # NoElement) =>
                   /\ action' = "drawing"
                   /\ selectedElement'.id = selectedElement.id
                   /\ selectedElement'.points[1] = selectedElement.points[1]
                   /\ selectedElement'.points[Len(selectedElement'.points)] = pos
                   /\ elements' = elements
        /\ onMouseLeave =>
             /\ action' = "none" /\ selectedElement' = NoElement
             /\ mousePosition' = NoPoint
             /\ (action = "drawing" /\ selectedElement # NoElement) =>
                    elements' = Append(elements, selectedElement)
        /\ ((handleMouseUp \/ onMouseLeave) /\ action = "none") =>
             elements' = elements ]_vars

\* a draw of two points was ended by the pointer leaving the canvas
C4_Witness ==
    /\ Len(elements) = 1 /\ Len(elements[1].points) = 2
    /\ action = "none" /\ selectedElement = NoElement
    /\ mousePosition = NoPoint /\ nextId = 2

\* C5: once no draw is in progress, every element ever started by a
\* pointer-down under a drawing tool is in the committed collection exactly
\* once.
C5_NoDraftLost ==
    selectedElement = NoElement =>
        \A id \in 1..(nextId - 1) :
            Cardinality({ i \in 1..Len(elements) : elements[i].id = id }) = 1

\* C6: a pointer-down with the move tool that misses the handles of the
\* selected image and lands in the bounding box of some image selects the
\* last-added image containing the point.
C6_TopmostImageHit ==
    [][ \A pos \in Positions :
          LET hits == { i \in 1..Len(placedImages) :
                           ContainsPoint(placedImages[i], pos) }
              onHandle == /\ selectedImageIndex # NoIndex
                          /\ getHandleAtPosition(pos.x, pos.y,
                                 placedImages[selectedImageIndex + 1]) # NoHandle
          IN  (handleMouseDown(pos) /\ activeTool = "move" /\ ~ onHandle
                   /\ hits # {}) =>
                 /\ action' = "dragging"
                 /\ \A j \in hits : j - 1 <= selectedImageIndex'
                 /\ selectedImageIndex' + 1 \in hits ]_vars

\* C7: the interaction state leaves idle only for an active state and an
\* active state only for idle, and every pointer-up and pointer-leave ends
\* in idle.
C7_OnlySpecifiedTransitions ==
    [][ /\ action = "none" \/ action' = "none" \/ action' = action
        /\ (handleMouseUp \/ onMouseLeave) => action' = "none" ]_vars

\* C8: whenever the active tool is a drawing tool, no image is selected.
C8_NoSelectionUnderDrawingTool ==
    isDrawingTool(activeTool) => selectedImageIndex = NoIndex

\* a drawing tool was chosen in the middle of a drag of the selected image
C8_Witness ==
    /\ isDrawingTool(activeTool) /\ action = "dragging"
    /\ Len(placedImages) > 0 /\ selectedImageIndex = NoIndex

\* C9: every step keeps the committed elements as a prefix of the new
\* collection and adds at most one, and a pointer-up or pointer-leave that
\* ends an eraser draw adds exactly one.
C9_ElementsAppendOnly ==
    [][ /\ IsPrefix(elements, elements')
        /\ Len(elements') <= Len(elements) + 1
        /\ ((handleMouseUp \/ onMouseLeave) /\ action = "drawing"
               /\ selectedElement.tool = "eraser") =>
             Len(elements') = Len(elements) + 1 ]_vars

\* an eraser stroke was committed over an earlier pencil stroke
C9_Witness ==
    /\ Len(elements) = 2
    /\ elements[1].tool = "pencil" /\ elements[2].tool = "eraser"
    /\ \E p \in SamplePoints :
          ElementCovers(elements[1], p) /\ ElementCovers(elements[2], p)

\* C10: where a committed eraser stroke is the last painting at a point,
\* the canvas and the export show the background in effect there, the
\* background image when one is set.
C10_EraserRevealsBackground ==
    \A i \in 1..Len(elements), p \in SamplePoints :
        LET layers == useLayoutEffect(placedImages, elements, selectedElement,
                                      selectedImageIndex, mousePosition)
        IN  (elements[i].tool = "eraser" /\ TopLayer(layers, p) = i + 1) =>
               /\ Canvas[p] = BackgroundLayer.paint
               /\ exported # NoExport => exported.pixels[p] = BackgroundLayer.paint

\* C11: the background is a solid colour or an image, never both: while a
\* background image is set, the colour chosen before it shows at no point
\* of the canvas or of an export (no stroke colour offered by the controls
\* equals a background colour, so such a point is painted from the
\* background colour).
C11_BackgroundExclusive ==
    backgroundImage # NoImage =>
        \A p \in SamplePoints :
            /\ Canvas[p] # Color(backgroundColor)
            /\ exported # NoExport => exported.pixels[p] # Color(backgroundColor)

\* C12: every committed line, rectangle or circle has exactly 2 points, and
\* every committed pencil or eraser stroke at least 1.
C12_ShapeHasTwoPoints ==
    \A i \in 1..Len(elements) :
        IF elements[i].tool \in {"line", "rectangle", "circle"}
        THEN Len(elements[i].points) = 2
        ELSE Len(elements[i].points) >= 1

\* the corner diagonally opposite to a handle, and the signed extent of the
\* rectangle spanned by that corner and the pointer
Opposite(handle) ==
    CASE handle = "tl" -> "br" [] handle = "tr" -> "bl"
      [] handle = "bl" -> "tr" [] handle = "br" -> "tl"

SignedWidth(handle, opp, pos) ==
    IF handle \in {"tl", "bl"} THEN opp.x - pos.x ELSE pos.x - opp.x

SignedHeight(handle, opp, pos) ==
    IF handle \in {"tl", "tr"} THEN opp.y - pos.y ELSE pos.y - opp.y

\* C13: a pointer-move of a resize whose resulting width or height would be
\* at most 10 leaves every placed image as it was and keeps the interaction
\* in resizing with the same handle and the same selection.
C13_RejectedResizeIsNoOp ==
    [][ \A pos \in ResizePositions :
          (handleMouseMove(pos, Pt(0, 0)) /\ action = "resizing"
              /\ selectedImageIndex # NoIndex /\ resizeHandle # NoHandle) =>
            LET img == placedImages[selectedImageIndex + 1]
                opp == HandlePos(img, Opposite(resizeHandle))
            IN  (\/ SignedWidth(resizeHandle, opp, pos) <= MinSize
                 \/ SignedHeight(resizeHandle, opp, pos) <= MinSize) =>
                   /\ placedImages' = placedImages
                   /\ action' = "resizing"
                   /\ resizeHandle' = resizeHandle
                   /\ selectedImageIndex' = selectedImageIndex ]_vars

\* a resize from the top-left handle to (190, 140), which would leave a
\* 10 x 10 image, was rejected
C13_Witness ==
    /\ action = "resizing" /\ resizeHandle = "tl"
    /\ mousePosition = Pt(190, 140)
    /\ selectedImageIndex = 0
    /\ placedImages[1].x = 50 /\ placedImages[1].y = 50
    /\ placedImages[1].width = 150 /\ placedImages[1].height = 100

\* C14: a decoded photo of intrinsic size w x h is placed at (50, 50) with
\* width 150 and height 150 * h / w, and every pointer-move of a drag adds
\* exactly the movement of that event to the position of the selected image
\* and changes neither its size nor any other image.
C14_PlacementAndDrag ==
    [][ /\ \A i \in 1..MaxImages :
             imageOnload(i) =>
               LET file == pendingImages[i]
                   img == placedImages'[Len(placedImages')]
               IN  /\ Len(placedImages') = Len(placedImages) + 1
                   /\ img.x = 50 /\ img.y = 50 /\ img.width = 150
                   /\ img.height * file.width = 150 * file.height
        /\ \A pos \in Positions, movement \in Movements :
             (handleMouseMove(pos, movement) /\ action = "dragging"
                 /\ selectedImageIndex # NoIndex) =>
               /\ Len(placedImages') = Len(placedImages)
               /\ \A k \in 1..Len(placedImages) :
                    IF k = selectedImageIndex + 1
                    THEN /\ placedImages'[k].x = placedImages[k].x + movement.x
                         /\ placedImages'[k].y = placedImages[k].y + movement.y
                         /\ placedImages'[k].width = placedImages[k].width
                         /\ placedImages'[k].height = placedImages[k].height
                         /\ placedImages'[k].id = placedImages[k].id
                    ELSE placedImages'[k] = placedImages[k] ]_vars

\* the 300 x 200 photo, dragged by (20, -10), is at (70, 40) with size
\* 150 x 100
C14_Witness ==
    /\ action = "dragging" /\ selectedImageIndex = 0
    /\ placedImages[1].id = "f1"
    /\ placedImages[1].x = 70 /\ placedImages[1].y = 40
    /\ placedImages[1].width = 150 /\ placedImages[1].height = 100

\* C15: a pointer-down under a shape tool starts an element of that tool,
\* with the stroke colour and width of that moment and the pointer position
\* as its only point; while the draw is in progress no step changes its
\* kind, colour, width or first point, and a pointer-move makes its points
\* the first point and the pointer position; the pointer-up appends exactly
\* that element to the committed elements.
C15_ShapeGestureCommit ==
    [][ /\ \A pos \in DrawPositions :
             /\ (handleMouseDown(pos) /\ activeTool \in {"line", "rectangle", "circle"}) =>
                   /\ selectedElement'.tool = activeTool
                   /\ selectedElement'.color = strokeColor
                   /\ selectedElement'.width = strokeWidth
                   /\ selectedElement'.points = <<pos>>
                   /\ action' = "drawing"
             /\ (handleMouseMove(pos, Pt(0, 0)) /\ action = "drawing"
                    /\ selectedElement.tool \in {"line", "rectangle", "circle"}) =>
                   selectedElement'.points = <<selectedElement.points[1], pos>>
        /\ (action = "drawing" /\ selectedElement # NoElement
               /\ ~ handleMouseUp /\ ~ onMouseLeave
               /\ ~ \E pos \in DrawPositions : handleMouseDown(pos)) =>
             /\ action' = "drawing"
             /\ selectedElement'.id = selectedElement.id
             /\ selectedElement'.tool = selectedElement.tool
             /\ selectedElement'.color = selectedElement.color
             /\ selectedElement'.width = selectedElement.width
             /\ selectedElement'.points[1] = selectedElement.points[1]
             /\ elements' = elements
        /\ (handleMouseUp /\ action = "drawing" /\ selectedElement # NoElement) =>
             /\ elements' = Append(elements, selectedElement)
             /\ selectedElement' = NoElement ]_vars

\* a rectangle from (50, 50) to (60, 60) is in progress with the colour
\* and width of its pointer-down, after the tool and both controls were
\* changed in the middle of the gesture
C15_Witness ==
    /\ action = "drawing"
    /\ selectedElement.tool = "rectangle" /\ activeTool = "line"
    /\ selectedElement.color = "#000000" /\ strokeColor = "#FF0000"
    /\ selectedElement.width = 5 /\ strokeWidth = 20
    /\ selectedElement.points = <<Pt(50, 50), Pt(60, 60)>>

\* the placed images and the committed elements that cover a point, and
\* whether the selection affordance or the tool preview is painted there
ImagesAt(p) ==
    { k \in 1..Len(placedImages) :
         InBox(p, placedImages[k].x, placedImages[k].y,
               placedImages[k].x + placedImages[k].width,
               placedImages[k].y + placedImages[k].height, 0) }

ElementsAt(p) == { i \in 1..Len(elements) : ElementCovers(elements[i], p) }

Overlaid(p) ==
    LET over == (IF selectedImageIndex # NoIndex
                 THEN SelectionLayers(placedImages[selectedImageIndex + 1])
                 ELSE <<>>) \o PreviewLayers(mousePosition)
    IN  \E i \in 1..Len(over) : p \in over[i].at

LastOf(set) == CHOOSE i \in set : \A j \in set : j <= i

\* C16: away from the selection affordance and the tool preview, a point
\* covered by a placed image shows the last-placed image that covers it,
\* whatever elements were drawn there and whenever, and a point covered by
\* committed elements only (no image, no element in progress) shows the
\* stroke of the last-inserted element that covers it.
C16_PaintOrder ==
    \A p \in SamplePoints :
        /\ (ImagesAt(p) # {} /\ ~ Overlaid(p)) =>
              Canvas[p] = [kind |-> "image",
                           value |-> placedImages[LastOf(ImagesAt(p))].image]
        /\ (ImagesAt(p) = {} /\ ~ Overlaid(p) /\ ElementsAt(p) # {}
               /\ ~ ElementCovers(selectedElement, p)) =>
              LET el == elements[LastOf(ElementsAt(p))]
              IN  Canvas[p] = Color(IF el.tool = "eraser" THEN backgroundColor
                                    ELSE el.color)

\* a placed photo covers a point where a pencil stroke and then an eraser
\* stroke were committed
C16_Witness ==
    /\ Len(placedImages) = 1 /\ Len(elements) = 2
    /\ elements[1].tool = "pencil" /\ elements[2].tool = "eraser"
    /\ \E p \in SamplePoints :
          /\ ImagesAt(p) # {} /\ ~ Overlaid(p)
          /\ ElementsAt(p) = {1, 2}

\* the state of the scene and of the interaction, without the placed images
sceneButImages ==
    <<elements, activeTool, action, selectedImageIndex, selectedElement,
      resizeHandle, strokeColor, strokeWidth, mousePosition, backgroundColor,
      backgroundImage>>

\* C17: activating a thumbnail changes nothing of the scene; a completed
\* decode appends one placed image of the decoded file at the end of the
\* collection and changes nothing else; a failed decode changes nothing of
\* the scene; and while a decode is pending every pointer handler is
\* enabled (the witness is an export taken while a decode is pending).
C17_DecodeIsAsynchronous ==
    [][ /\ \A file \in UploadedFiles :
             addImageToCanvas(file) =>
                 UNCHANGED <<placedImages, sceneButImages>>
        /\ \A i \in 1..MaxImages :
             /\ imageOnload(i) =>
                   /\ Len(placedImages') = Len(placedImages) + 1
                   /\ IsPrefix(placedImages, placedImages')
                   /\ placedImages'[Len(placedImages')].id = pendingImages[i].id
                   /\ UNCHANGED sceneButImages
             /\ imageOnerror(i) => UNCHANGED <<placedImages, sceneButImages>>
        /\ pendingImages # <<>> =>
             /\ ENABLED handleMouseUp
             /\ \A pos \in Positions :
                   /\ ENABLED handleMouseDown(pos)
                   /\ ENABLED handleMouseMove(pos, Pt(0, 0)) ]_vars

\* an export was taken in the middle of a drag of the first photo while the
\* decode of a second one was pending
C17_Witness ==
    /\ Len(pendingImages) = 1 /\ Len(placedImages) = 1
    /\ action = "dragging" /\ placedImages[1].x = 70
    /\ exported # NoExport

\* C18: every export returns a result, and with no placed image and no
\* drawn element, committed or in progress, the result is the frame of the
\* background alone.
C18_ExportNeverEmpty ==
    [][ getCanvasAsBase64 =>
          /\ exported' # NoExport
          /\ exported'.pixels # <<>>
          /\ (placedImages = <<>> /\ elements = <<>>
                 /\ selectedElement = NoElement) =>
               \A p \in SamplePoints :
                   exported'.pixels[p] = BackgroundLayer.paint ]_vars

\* C19: on an accepted pointer-move of a resize, the corner of the selected
\* image named by the handle lands on the pointer position, the diagonally
\* opposite corner stays where it was, and no other image changes.
C19_ResizeCorners ==
    [][ \A pos \in ResizePositions :
          (handleMouseMove(pos, Pt(0, 0)) /\ action = "resizing"
              /\ selectedImageIndex # NoIndex /\ resizeHandle # NoHandle) =>
            LET img == placedImages[selectedImageIndex + 1]
                new == placedImages'[selectedImageIndex + 1]
                opp == HandlePos(img, Opposite(resizeHandle))
            IN  (/\ SignedWidth(resizeHandle, opp, pos) > MinSize
                 /\ SignedHeight(resizeHandle, opp, pos) > MinSize) =>
                   /\ HandlePos(new, resizeHandle) = pos
                   /\ HandlePos(new, Opposite(resizeHandle)) = opp
                   /\ new.width > MinSize /\ new.height > MinSize
                   /\ \A k \in 1..Len(placedImages) :
                         k # selectedImageIndex + 1 =>
                             placedImages'[k] = placedImages[k] ]_vars

\* the top-right handle of the photo placed at (50, 50) with size 150 x 100
\* was dragged to (100, 100): the bottom-left corner is still (50, 150)
C19_Witness ==
    /\ action = "resizing" /\ resizeHandle = "tr"
    /\ mousePosition = Pt(100, 100) /\ selectedImageIndex = 0
    /\ placedImages[1].x = 50 /\ placedImages[1].y = 100
    /\ placedImages[1].width = 50 /\ placedImages[1].height = 50

\* C20: a pointer-move during a draw appends the pointer position to the
\* points of a pencil or eraser element, keeping the earlier points as a
\* prefix, and replaces the second point of a line, rectangle or circle,
\* keeping the first; an element of those three kinds never has more than
\* 2 points.
C20_AppendOrReplace ==
    [][ /\ \A pos \in DrawPositions :
             (handleMouseMove(pos, Pt(0, 0)) /\ action = "drawing"
                 /\ selectedElement # NoElement) =>
               IF selectedElement.tool \in {"pencil", "eraser"}
               THEN /\ selectedElement'.points = Append(selectedElement.points, pos)
                    /\ IsPrefix(selectedElement.points, selectedElement'.points)
               ELSE /\ selectedElement'.points = <<selectedElement.points[1], pos>>
        /\ selectedElement'.tool \in {"line", "rectangle", "circle"} =>
               Len(selectedElement'.points) <= 2
        /\ \A i \in 1..Len(elements') :
               elements'[i].tool \in {"line", "rectangle", "circle"} =>
                   Len(elements'[i].points) <= 2 ]_vars

\* a pencil stroke in progress holds its three points in the order of the
\* pointer-down and the two pointer-moves
C20_Witness ==
    /\ action = "drawing" /\ selectedElement.tool = "pencil"
    /\ selectedElement.points = <<Pt(50, 50), Pt(60, 60), Pt(50, 50)>>

\* the handles of the selected image whose 10 x 10 box contains a point
HandlesAt(pos) ==
    IF selectedImageIndex = NoIndex THEN {}
    ELSE { h \in ResizeHandle :
              LET c == HandlePos(placedImages[selectedImageIndex + 1], h)
              IN  InBox(pos, c.x, c.y, c.x, c.y, 10) }

\* C21: a pointer-down under the move tool inside the box of a corner of
\* the selected image enters resizing, records a corner whose box contains
\* the point and keeps the selection, whatever images contain the point; a
\* pointer-down outside those boxes records no handle and enters resizing
\* from no other state, also when it is on a corner of another image.
C21_HandlePrecedence ==
    [][ \A pos \in Positions :
          (handleMouseDown(pos) /\ activeTool = "move") =>
             IF HandlesAt(pos) # {}
             THEN /\ action' = "resizing"
                  /\ resizeHandle' \in HandlesAt(pos)
                  /\ selectedImageIndex' = selectedImageIndex
             ELSE /\ resizeHandle' = resizeHandle
                  /\ action' = "resizing" => action = "resizing" ]_vars

\* the top-left handle of the selected first photo was taken at a point
\* that the second photo contains as well
C21_Witness ==
    /\ Len(placedImages) = 2 /\ selectedImageIndex = 0
    /\ action = "resizing" /\ resizeHandle = "tl"
    /\ ContainsPoint(placedImages[2], HandlePos(placedImages[1], "tl"))

\* C22: a pointer-move in dragging or resizing changes nothing but the
\* position and size of the selected image: the other placed images, the
\* committed elements, the background and the selection stay as they were;
\* and the selection changes in no step other than a pointer-down under the
\* move tool or a click on a tool button.
C22_MoveFrame ==
    [][ /\ \A pos \in Positions, movement \in Movements :
             (handleMouseMove(pos, movement)
                 /\ action \in {"dragging", "resizing"}) =>
               /\ Len(placedImages') = Len(placedImages)
               /\ \A k \in 1..Len(placedImages) :
                    IF k = selectedImageIndex + 1
                    THEN /\ placedImages'[k].id = placedImages[k].id
                         /\ placedImages'[k].image = placedImages[k].image
                    ELSE placedImages'[k] = placedImages[k]
               /\ UNCHANGED <<elements, backgroundColor, backgroundImage,
                              selectedImageIndex>>
        /\ selectedImageIndex' # selectedImageIndex =>
             \/ activeTool = "move" /\ \E pos \in Positions : handleMouseDown(pos)
             \/ \E tool \in Tool : ToolButton(tool) ]_vars

\* the first of two photos placed at (50, 50) was dragged by (20, -10) and
\* the second is where it was placed
C22_Witness ==
    /\ Len(placedImages) = 2 /\ selectedImageIndex = 0 /\ action = "dragging"
    /\ placedImages[1].x = 70 /\ placedImages[1].y = 40
    /\ placedImages[2].x = 50 /\ placedImages[2].y = 50

\* C23: the repaint draws the tool-size preview exactly when a pointer
\* position is known, the active tool is a drawing tool and the interaction
\* is idle; a pointer-leave clears the pointer position, and no step other
\* than a pointer-move makes it known again, so no preview is drawn from a
\* pointer-leave to the next pointer-move.
C23_PreviewShown ==
    [][ /\ PreviewLayers(mousePosition) # <<>> <=>
             (mousePosition # NoPoint /\ isDrawingTool(activeTool)
                 /\ action = "none")
        /\ onMouseLeave =>
             /\ mousePosition' = NoPoint
             /\ PreviewLayers(mousePosition)' = <<>>
        /\ (mousePosition = NoPoint
               /\ ~ \E pos \in ToolPositions : handleMouseMove(pos, Pt(0, 0))) =>
             /\ mousePosition' = NoPoint
             /\ PreviewLayers(mousePosition)' = <<>> ]_vars

\* after a pointer-leave under the pencil, idle and with no pointer
\* position, no preview is drawn although a drawing tool is active
C23_Witness ==
    /\ activeTool = "pencil" /\ action = "none" /\ mousePosition = NoPoint
    /\ Len(elements) = 1
    /\ PreviewLayers(mousePosition) = <<>>

\* C24: an element in progress exists exactly when the interaction state
\* is drawing, and a resize handle is recorded exactly when it is resizing.
C24_TransientsAgree ==
    /\ selectedElement # NoElement <=> action = "drawing"
    /\ resizeHandle # NoHandle <=> action = "resizing"

\* C25: whenever the interaction state is dragging or resizing, an image is
\* selected.
C25_ActiveImageSelected ==
    action \in {"dragging", "resizing"} => selectedImageIndex # NoIndex

\* C26: the selected index is null or an index of a placed image, and a
\* completed decode leaves it as it is, denoting the same image as before.
C26_SelectionValid ==
    [][ /\ selectedImageIndex' = NoIndex
           \/ (0 <= selectedImageIndex' /\ selectedImageIndex' < Len(placedImages'))
        /\ \A i \in 1..MaxImages :
             (imageOnload(i) /\ selectedImageIndex # NoIndex) =>
               /\ selectedImageIndex' = selectedImageIndex
               /\ placedImages'[selectedImageIndex' + 1] =
                      placedImages[selectedImageIndex + 1] ]_vars

\* the dragged first photo is still the selected one after the decode of a
\* second photo has completed
C26_Witness ==
    /\ Len(placedImages) = 2 /\ pendingImages = <<>>
    /\ selectedImageIndex = 0 /\ action = "dragging"
    /\ placedImages[1].id = "f1" /\ placedImages[1].x = 70
    /\ placedImages[2].id = "f2" /\ placedImages[2].x = 50

\* C28: any two entries of the placed images have different identifiers.
C28_UniqueIds ==
    \A i, j \in 1..Len(placedImages) :
        i # j => placedImages[i].id # placedImages[j].id

\* C27: the background in effect is the most recent choice.  Under
\* SpecLateDecode every image is requested before the first colour pick, so
\* once a colour has been picked the pick is the most recent choice and no
\* background image may be in effect, whenever its decode completes.
C27_LatestChoiceWins ==
    backgroundColor \in BackgroundColors => backgroundImage = NoImage

\* the requests of the call all succeeded and no part of a response is an image
AllSucceededWithoutImage(env) ==
    /\ env.apiKey /\ env.readable /\ env.rejection = NoRejection
    /\ env.responses # <<>>
    /\ \A i \in 1..Len(env.responses) :
         \A c \in 1..Len(env.responses[i].candidates) :
            \A k \in 1..Len(env.responses[i].candidates[c].parts) :
               env.responses[i].candidates[c].parts[k].kind # "inlineData"

\* C29: when every request succeeds and no response holds an image part,
\* generateRenderings rejects with the no-images message and the caller
\* receives that message as its error.
C29_NoImagesMessage ==
    [][ \A env \in Environments(generation.numImages) :
          (handleGenerateSettled(env) /\ AllSucceededWithoutImage(env)) =>
             /\ generateRenderings(env) = Rejected(ErrorOf(NoImagesMessage))
             /\ error' = NoImagesMessage ]_vars

\* C30: while there are generated images the carousel index is one of
\* their indices.
C30_IndexInRange ==
    generatedImages # <<>> =>
        0 <= activeImageIndex /\ activeImageIndex < Len(generatedImages)

\* the last of several generated images is shown, nothing is loading
C30_Witness ==
    /\ ~ isLoading /\ error = NoError
    /\ Len(generatedImages) > 1
    /\ activeImageIndex = Len(generatedImages) - 1

====
